---- MODULE Spec2Model ----
(***************************************************************************)
(* Model of the typed configuration-value registry of src/example.cpp:     *)
(* the config values (AbstractCV and its four subclasses), the factory     *)
(* that resolves each initial value from the hard-coded default and the    *)
(* override map (CVFactory), and the registry (ConfigTemplate) with its    *)
(* typed accessor as_<T> and its mutator set.                              *)
(*                                                                         *)
(* Text is a sequence of one-character strings, so that std::stoi,         *)
(* std::to_string, ::toupper and strToBool are computed character by       *)
(* character as the library computes them.  Integers are TLC's 32-bit      *)
(* integers: every integer the program stores comes out of std::stoi or    *)
(* is a declared default, so it fits an int; the one place a wider value   *)
(* arises (a negative value cast to a 32- or 64-bit unsigned type) is      *)
(* written as the record [wrap |-> w, off |-> v], which stands for the     *)
(* number 2^w + v.                                                         *)
(***************************************************************************)
EXTENDS Integers, Sequences, FiniteSets, TLC

(***************************************************************************)
(* Characters                                                              *)
(***************************************************************************)
Digits == <<"0", "1", "2", "3", "4", "5", "6", "7", "8", "9">>

Lower == <<"a", "b", "c", "d", "e", "f", "g", "h", "i", "j", "k", "l", "m",
           "n", "o", "p", "q", "r", "s", "t", "u", "v", "w", "x", "y", "z">>

Upper == <<"A", "B", "C", "D", "E", "F", "G", "H", "I", "J", "K", "L", "M",
           "N", "O", "P", "Q", "R", "S", "T", "U", "V", "W", "X", "Y", "Z">>

\* isspace in the "C" locale: space, \t, \n, \v, \f and \r.  The vertical
\* tab (character 11) has no TLA+ escape and stands in its string as itself.
isspace(c) == c \in {" ", "\t", "\n", "", "\f", "\r"}

isdigit(c) == \E i \in 1..10 : Digits[i] = c

\* The value of a decimal digit character.
DigitVal(c) == (CHOOSE i \in 1..10 : Digits[i] = c) - 1

\* ::toupper in the "C" locale: a..z go to A..Z, every other character stays.
toupper(c) ==
    IF \E i \in 1..26 : Lower[i] = c
    THEN Upper[CHOOSE i \in 1..26 : Lower[i] = c]
    ELSE c

\* std::transform(upStr.begin(), upStr.end(), upStr.begin(), ::toupper)
ToUpperStr(s) == [i \in 1..Len(s) |-> toupper(s[i])]

(***************************************************************************)
(* strToBool (lines 111-121)                                               *)
(***************************************************************************)
\* A plausible slip: the comparison made without upper-casing first.
strToBool_CaseSensitive(in) ==
    ~ (in = <<"0">> \/ in = <<"F", "A", "L", "S", "E">> \/ in = <<"O", "F", "F">>)

strToBool(in) ==
    LET upStr == ToUpperStr(in)
    IN  IF upStr = <<"0">> \/ upStr = <<"F", "A", "L", "S", "E">>
           \/ upStr = <<"O", "F", "F">>
        THEN FALSE
        ELSE TRUE

(***************************************************************************)
(* std::stoi and std::to_string                                            *)
(***************************************************************************)
INT_MAX == 2147483647
INT_MIN == (-2147483647) - 1

\* The index of the first character of s at or after i that is not white
\* space (Len(s) + 1 when there is none).
RECURSIVE SkipSpace(_, _)
SkipSpace(s, i) ==
    IF i <= Len(s) /\ isspace(s[i]) THEN SkipSpace(s, i + 1) ELSE i

\* strtol's digit loop from index i.  acc is minus the magnitude read so
\* far (the negative range is the larger one); lim is the least value acc
\* may take.  The result is acc after the last digit, or 1 when the number
\* leaves the range of int (every further digit is still consumed).
RECURSIVE ParseDigits(_, _, _, _)
ParseDigits(s, i, acc, lim) ==
    IF i > Len(s) \/ ~ isdigit(s[i]) THEN acc
    ELSE LET d == DigitVal(s[i])
         IN  IF acc = 1 \/ acc < -214748364 THEN ParseDigits(s, i + 1, 1, lim)
             ELSE IF acc * 10 < lim + d THEN ParseDigits(s, i + 1, 1, lim)
             ELSE ParseDigits(s, i + 1, acc * 10 - d, lim)

\* What std::stoi gives once the sign is known: neg, the index i1 of the
\* first digit and acc, the result of the digit loop.
stoi_result(str, i1, neg, acc) ==
    IF i1 > Len(str) \/ ~ isdigit(str[i1])
    THEN [throw |-> "invalid_argument", what |-> "stoi"]
    ELSE IF acc = 1
    THEN [throw |-> "out_of_range", what |-> "stoi"]
    ELSE [int |-> IF neg THEN acc ELSE -acc]

\* std::stoi from the index i0 of the first character that is not white
\* space: an optional sign, then the digits.
stoi_signed(str, i0, neg) ==
    stoi_result(str, i0 + (IF i0 <= Len(str) /\ str[i0] \in {"+", "-"} THEN 1 ELSE 0),
                neg,
                ParseDigits(str,
                            i0 + (IF i0 <= Len(str) /\ str[i0] \in {"+", "-"} THEN 1 ELSE 0),
                            0, IF neg THEN INT_MIN ELSE -INT_MAX))

stoi_from(str, i0) == stoi_signed(str, i0, i0 <= Len(str) /\ str[i0] = "-")

\* std::stoi(str): skips leading white space, takes an optional sign and
\* then as many decimal digits as follow, ignoring whatever comes after
\* them.  Gives [int |-> n]; throws std::invalid_argument when no digit is
\* found there and std::out_of_range when the number does not fit an int.
stoi(str) == stoi_from(str, SkipSpace(str, 1))

\* The decimal digits of n >= 0.
RECURSIVE NatDigits(_)
NatDigits(n) ==
    IF n < 10 THEN <<Digits[n + 1]>>
    ELSE Append(NatDigits(n \div 10), Digits[(n % 10) + 1])

\* std::to_string(int / long): a minus sign for a negative value, then the
\* decimal digits.  The last digit of a negative value is split off before
\* the negation, so that INT_MIN is printed too.
to_string(v) ==
    IF v >= 0 THEN NatDigits(v)
    ELSE LET d == (10 - (v % 10)) % 10
             q == -((v + d) \div 10)
         IN  <<"-">> \o (IF q = 0 THEN <<>> ELSE NatDigits(q)) \o <<Digits[d + 1]>>

(***************************************************************************)
(* The declared parameters (lines 15-31 and 41-57)                         *)
(***************************************************************************)
TextAlluxio == <<"a", "l", "l", "u", "x", "i", "o">>
TextTrue == <<"t", "r", "u", "e">>
TextFalse == <<"f", "a", "l", "s", "e">>

\* The two instantiations of ConfigTemplate.
Registries == {"DatabaseConfig", "ClusterConfig"}

\* enum class DatabaseConfigParm and enum class ClusterConfigParm.
Parms(cfg) ==
    IF cfg = "DatabaseConfig"
    THEN {"MAX_ROWS_PER_ROWGROUP", "STRIDESIZE", "SHARED_FS_TYPE", "CACHE_MEM_SZ"}
    ELSE {"NUM_NODES", "ZK_TIMEOUT", "QUORUM_WRITE", "INSERT_FLUSH"}

\* The order in which the constructor's initializer list makes the values.
ParmOrder(cfg) ==
    IF cfg = "DatabaseConfig"
    THEN <<"MAX_ROWS_PER_ROWGROUP", "STRIDESIZE", "SHARED_FS_TYPE", "CACHE_MEM_SZ">>
    ELSE <<"NUM_NODES", "ZK_TIMEOUT", "QUORUM_WRITE", "INSERT_FLUSH">>

\* For each parameter the factory call of the constructor: the class made,
\* the width of IntType, the key and the hard-coded default.
Decl(parm) ==
    CASE parm = "MAX_ROWS_PER_ROWGROUP" ->
           [variant |-> "IntReadOnlyCV", width |-> 32,
            key |-> "MAX_ROWS_PER_ROWGROUP", defVal |-> 10000]
      [] parm = "STRIDESIZE" ->
           [variant |-> "IntReadOnlyCV", width |-> 16,
            key |-> "STRIDE_SIZE", defVal |-> 512]
      [] parm = "SHARED_FS_TYPE" ->
           [variant |-> "StrReadOnlyCV", width |-> 0,
            key |-> "SHARED_FS", defVal |-> TextAlluxio]
      [] parm = "CACHE_MEM_SZ" ->
           [variant |-> "IntUpdatableCV", width |-> 64,
            key |-> "CACHE_MEM_SZ", defVal |-> 0]
      [] parm = "NUM_NODES" ->
           [variant |-> "IntReadOnlyCV", width |-> 8,
            key |-> "NUM_NODES", defVal |-> 3]
      [] parm = "ZK_TIMEOUT" ->
           [variant |-> "IntReadOnlyCV", width |-> 64,
            key |-> "ZK_TIMEOUT", defVal |-> 10000]
      [] parm = "QUORUM_WRITE" ->
           [variant |-> "StrReadOnlyCV", width |-> 0,
            key |-> "QUORUM_WRITE", defVal |-> TextTrue]
      [] parm = "INSERT_FLUSH" ->
           [variant |-> "BoolReadOnlyCV", width |-> 0,
            key |-> "INSERT_FLUSH", defVal |-> TRUE]

(***************************************************************************)
(* Integer conversions                                                     *)
(***************************************************************************)
Pow2(w) == 2 ^ w

\* A plausible slip: a conversion that saturates at the ends of the
\* destination's range instead of wrapping.
Narrow_Saturating(v, w, signed) ==
    IF w >= 32 THEN IF signed \/ v >= 0 THEN [int |-> v] ELSE [int |-> 0]
    ELSE LET lo == IF signed THEN -Pow2(w - 1) ELSE 0
             hi == IF signed THEN Pow2(w - 1) - 1 ELSE Pow2(w) - 1
         IN  [int |-> IF v < lo THEN lo ELSE IF v > hi THEN hi ELSE v]

\* The conversion of an int or int64_t value v, itself within the range of
\* int, to the integer type of w bits: the value modulo 2^w, read as signed
\* or unsigned.  [int |-> n] is the number n; [wrap |-> w, off |-> v] is
\* the number 2^w + v, which a negative v gives in an unsigned type of 32
\* or 64 bits.
Narrow(v, w, signed) ==
    IF w >= 32
    THEN IF signed \/ v >= 0 THEN [int |-> v] ELSE [wrap |-> w, off |-> v]
    ELSE LET m == v % Pow2(w)
         IN  IF signed /\ m >= Pow2(w - 1) THEN [int |-> m - Pow2(w)]
             ELSE [int |-> m]

(***************************************************************************)
(* The config values (lines 129-246)                                       *)
(*                                                                         *)
(* A config value is [variant, width, key, mVal]: its class, the width of  *)
(* IntType (0 for the boolean and the string class), AbstractCV::mKey and  *)
(* the subclass's mVal.  The result of a call is a tagged record:          *)
(* [int |-> n], [wrap |-> w, off |-> v], [bool |-> b], [str |-> s],        *)
(* [void |-> TRUE] for a call that returns nothing, and                    *)
(* [throw |-> e, what |-> m] for an exception of class e.                  *)
(***************************************************************************)
IsThrow(r) == "throw" \in DOMAIN r

\* A conversion of what a call gave to the integer type of w bits: an
\* exception passes through.
ConvertInt(r, w, signed) == IF IsThrow(r) THEN r ELSE Narrow(r.int, w, signed)

\* asStr() of the four classes.
asStr(cv) ==
    CASE cv.variant \in {"IntReadOnlyCV", "IntUpdatableCV"} ->
           [str |-> to_string(cv.mVal)]
      [] cv.variant = "BoolReadOnlyCV" ->
           [str |-> IF cv.mVal THEN TextTrue ELSE TextFalse]
      [] cv.variant = "StrReadOnlyCV" -> [str |-> cv.mVal]

\* asInt() of the four classes; the string class parses with std::stoi.
asInt(cv) ==
    CASE cv.variant \in {"IntReadOnlyCV", "IntUpdatableCV"} -> [int |-> cv.mVal]
      [] cv.variant = "BoolReadOnlyCV" -> [int |-> IF cv.mVal THEN 1 ELSE 0]
      [] cv.variant = "StrReadOnlyCV" -> stoi(cv.mVal)

\* asBool() of the four classes.
asBool(cv) ==
    CASE cv.variant \in {"IntReadOnlyCV", "IntUpdatableCV"} ->
           [bool |-> cv.mVal # 0]
      [] cv.variant = "BoolReadOnlyCV" -> [bool |-> cv.mVal]
      [] cv.variant = "StrReadOnlyCV" -> [bool |-> strToBool(cv.mVal)]

\* A plausible slip: the base class's set takes the new value instead of
\* refusing it.
AbstractCV_set_Stores(cv, v) ==
    [cv |-> [cv EXCEPT !.mVal = CASE cv.variant = "StrReadOnlyCV" -> v
                                  [] cv.variant = "BoolReadOnlyCV" -> strToBool(v)
                                  [] OTHER -> 0],
     out |-> [void |-> TRUE]]

\* AbstractCV::set, which the three read-only classes inherit: throws
\* std::runtime_error naming the key.  The value is left as it is.
AbstractCV_set(cv, v) ==
    [cv |-> cv, out |-> [throw |-> "runtime_error", what |-> cv.key]]

\* A plausible slip: a store that is not atomic, caught when only the low
\* 16 bits of the new value have replaced those of the old one.
TornStore(old, new) == (new % 65536) + (old \div 65536) * 65536

\* The new content of the atomic cell after an atomic store of new.
AtomicStore(old, new) == new

\* A plausible slip: a text that does not parse is stored as 0.
IntUpdatableCV_assign_ZeroOnError(cv, r) ==
    IF IsThrow(r) THEN [cv |-> [cv EXCEPT !.mVal = 0], out |-> r]
    ELSE [cv |-> [cv EXCEPT !.mVal = r.int], out |-> [void |-> TRUE]]

\* mVal = r, where r is what std::stoi gave: the conversion to int64_t and
\* the atomic store, or nothing stored when std::stoi threw.
IntUpdatableCV_assign(cv, r) ==
    IF IsThrow(r) THEN [cv |-> cv, out |-> r]
    ELSE [cv |-> [cv EXCEPT !.mVal = AtomicStore(cv.mVal, r.int)],
          out |-> [void |-> TRUE]]

\* IntUpdatableCV<int64_t>::set: mVal = std::stoi(v).
IntUpdatableCV_set(cv, v) == IntUpdatableCV_assign(cv, stoi(v))

\* The virtual call val.set(newVal).
CV_set(cv, v) ==
    IF cv.variant = "IntUpdatableCV" THEN IntUpdatableCV_set(cv, v)
    ELSE AbstractCV_set(cv, v)

(***************************************************************************)
(* CVFactory (lines 254-341)                                               *)
(***************************************************************************)
\* A plausible slip: the override is looked up by a normalised key (case
\* and underscores dropped), so that an entry under another spelling of a
\* declared key takes effect.  KeyFold gives the declared key a spelling
\* normalises to.
KeyFold(k) ==
    CASE k = "STRIDESIZE" -> "STRIDE_SIZE"
      [] k = "insert_flush" -> "INSERT_FLUSH"
      [] OTHER -> k

Find_Normalised(overrides, overrideKey) ==
    IF \E k \in DOMAIN overrides : KeyFold(k) = overrideKey
    THEN [found |-> TRUE,
          second |-> overrides[CHOOSE k \in DOMAIN overrides : KeyFold(k) = overrideKey]]
    ELSE [found |-> FALSE]

\* mOverrides.find(overrideKey): an exact match of the key.
Find(overrides, overrideKey) ==
    IF overrideKey \in DOMAIN overrides
    THEN [found |-> TRUE, second |-> overrides[overrideKey]]
    ELSE [found |-> FALSE]

\* resolveVal<IntType>: the default when the key has no override, else
\* std::stoi of the override's text converted to IntType, the result type.
resolveVal_Int(it, defValue, width) ==
    IF ~ it.found THEN [int |-> defValue]
    ELSE ConvertInt(stoi(it.second), width, TRUE)

\* resolveVal for a string value: the override's text as it is.
resolveVal_Str(it, defValue) ==
    IF ~ it.found THEN [str |-> defValue] ELSE [str |-> it.second]

\* resolveVal for a bool value: strToBool of the override's text.
resolveVal_Bool(it, defValue) ==
    IF ~ it.found THEN [bool |-> defValue] ELSE [bool |-> strToBool(it.second)]

\* The overload of resolveVal the factory call of declaration d selects,
\* applied to the result it of the lookup.
resolveVal(it, d) ==
    CASE d.variant \in {"IntReadOnlyCV", "IntUpdatableCV"} ->
           resolveVal_Int(it, d.defVal, d.width)
      [] d.variant = "StrReadOnlyCV" -> resolveVal_Str(it, d.defVal)
      [] d.variant = "BoolReadOnlyCV" -> resolveVal_Bool(it, d.defVal)

\* new IntReadOnlyCV<IntType>(r, key, help) and the like: the config value
\* of declaration d with the resolved value r, or the exception resolveVal
\* threw.
New_CV(d, r) ==
    IF IsThrow(r) THEN r
    ELSE [variant |-> d.variant, width |-> d.width, key |-> d.key,
          mVal |-> CASE "int" \in DOMAIN r -> r.int
                     [] "str" \in DOMAIN r -> r.str
                     [] "bool" \in DOMAIN r -> r.bool]

\* Make_IntReadOnlyCV, Make_IntUpdatableCV, Make_StrReadOnlyCV and
\* Make_BoolReadOnlyCV for a declared parameter.
Make_CV(overrides, d) == New_CV(d, resolveVal(Find(overrides, d.key), d))

(***************************************************************************)
(* ConfigTemplate (lines 23-31, 49-57 and 349-403)                         *)
(***************************************************************************)
\* The initializer list of mParms, given what each factory call made: the
\* values are made in the order of the list, and the first exception
\* leaves the constructor.
InitializerList(order, made) ==
    IF \A i \in 1..Len(order) : ~ IsThrow(made[order[i]])
    THEN [mParms |-> made]
    ELSE made[order[CHOOSE i \in 1..Len(order) :
                      /\ IsThrow(made[order[i]])
                      /\ \A j \in 1..(i - 1) : ~ IsThrow(made[order[j]])]]

\* The constructor of ConfigTemplate<DatabaseConfigParm> and of
\* ConfigTemplate<ClusterConfigParm>: the map of the values, or the
\* exception thrown.
ConfigTemplate_ctor(c, ovr) ==
    InitializerList(ParmOrder(c), [p \in Parms(c) |-> Make_CV(ovr, Decl(p))])

\* The types as_<T> is asked for.
IntTypes == {"int8_t", "uint8_t", "int16_t", "uint16_t",
             "int32_t", "uint32_t", "int64_t", "uint64_t"}

DestTypes == {"string", "bool"} \cup IntTypes

Width(T) ==
    CASE T \in {"int8_t", "uint8_t"} -> 8
      [] T \in {"int16_t", "uint16_t"} -> 16
      [] T \in {"int32_t", "uint32_t"} -> 32
      [] T \in {"int64_t", "uint64_t"} -> 64

Signed(T) == T \in {"int8_t", "int16_t", "int32_t", "int64_t"}

\* The three overloads of convertToType: std::string takes asStr(), bool
\* takes asBool(), every integer type takes static_cast<IntType>(asInt()).
convertToType(val, T) ==
    CASE T = "string" -> asStr(val)
      [] T = "bool" -> asBool(val)
      [] OTHER -> ConvertInt(asInt(val), Width(T), Signed(T))

\* as_<T>(parm)
as_(parms, parm, T) == convertToType(parms[parm], T)

(***************************************************************************)
(* The inputs                                                              *)
(***************************************************************************)
\* The texts given as override values; the defaults "alluxio" and "true"
\* are among the stored texts through the declarations.
OverrideTexts ==
    {<<"5", "1", "2">>,
     <<"7", "0", "0", "0", "0">>,
     <<"5", "0", "0", "0", "0", "0", "0", "0", "0", "0">>,
     <<"1", "2", "a", "b", "c">>,
     <<>>,
     <<"0">>,
     <<"f", "a", "l", "s", "e">>,
     <<"o", "f", "f">>,
     <<"O", "F", "F">>,
     <<"T", "R", "U", "E">>,
     <<"1">>,
     <<"y", "e", "s">>}

\* The texts given to set.
SetTexts ==
    {<<"4", "0", "9", "6", "0", "0", "0">>,
     <<"1", "3", "1", "0", "7", "2">>,
     <<"5", "0", "0", "0", "0", "0", "0", "0", "0", "0">>,
     <<"1", "2", "a", "b", "c">>,
     <<"a", "b", "c">>,
     <<"-", "1", "2", "9">>}

\* The keys an override map may hold for a registry: the declared keys and
\* another spelling, which belongs to no parameter.
OverrideKeys(c) ==
    IF c = "DatabaseConfig"
    THEN {"MAX_ROWS_PER_ROWGROUP", "STRIDE_SIZE", "SHARED_FS", "CACHE_MEM_SZ",
          "STRIDESIZE"}
    ELSE {"NUM_NODES", "ZK_TIMEOUT", "QUORUM_WRITE", "INSERT_FLUSH",
          "insert_flush"}

\* The most entries of an override map.
MaxOverrides == 1

\* The override maps: std::map<std::string, std::string> as a function.
OverrideMaps(c) ==
    UNION {[D -> OverrideTexts] :
             D \in {K \in SUBSET OverrideKeys(c) : Cardinality(K) <= MaxOverrides}}

\* The threads that call the registry at the same time.
NumThreads == 2

Threads == 1..NumThreads

\* The updatable parameter the threads call set and as_ on, the texts they
\* set and the types they ask for.
UpdParm == "CACHE_MEM_SZ"

ConcSetTexts == {<<"4", "0", "9", "6", "0", "0", "0">>, <<"1", "3", "1", "0", "7", "2">>, <<"a", "b", "c">>}

ConcTypes == {"string", "bool", "uint64_t"}

ConcOverrides == {<<>>, ("CACHE_MEM_SZ" :> <<"5", "1", "2">>)}

(***************************************************************************)
(* The state                                                               *)
(***************************************************************************)
VARIABLES
    cfg,        \* the instantiation of ConfigTemplate under construction or in use
    overrides,  \* the override map handed to the constructor
    phase,      \* "start", then "ready" or, when the constructor threw, "failed"
    mParms,     \* ConfigTemplate::mParms: the config value of each parameter
    result,     \* the last call of the single caller and what it gave
    pc,         \* where each thread is in its call
    local,      \* each thread's call: the type asked for, the value parsed or loaded
    last,       \* the value of the atomic store that took effect last
    written     \* the values the atomic stores so far were given

vars == <<cfg, overrides, phase, mParms, result, pc, local, last, written>>

threadVars == <<pc, local, last, written>>

NoCall == [op |-> "none", parm |-> "", ty |-> "", text |-> <<>>, out |-> [void |-> TRUE]]

NoLocal == [ty |-> "", val |-> 0, seen |-> 0]

(***************************************************************************)
(* One caller: construction, then as_ and set calls one after another      *)
(***************************************************************************)
Init ==
    /\ cfg \in Registries
    /\ overrides \in OverrideMaps(cfg)
    /\ phase = "start"
    /\ mParms = <<>>
    /\ result = NoCall
    /\ pc = [t \in Threads |-> "idle"]
    /\ local = [t \in Threads |-> NoLocal]
    /\ last = 0
    /\ written = {}

\* The end of the constructor call that gave r.
Constructed(r) ==
    IF IsThrow(r)
    THEN /\ phase' = "failed"
         /\ mParms' = <<>>
         /\ result' = [NoCall EXCEPT !.op = "ctor", !.out = r]
    ELSE /\ phase' = "ready"
         /\ mParms' = r.mParms
         /\ result' = [NoCall EXCEPT !.op = "ctor"]

\* ConfigTemplate<...>::ConfigTemplate(overrides)
Construct ==
    /\ phase = "start"
    /\ Constructed(ConfigTemplate_ctor(cfg, overrides))
    /\ UNCHANGED <<cfg, overrides, threadVars>>

\* ConfigTemplate::as_<T>(parm)
Get(parm, T) ==
    /\ phase = "ready"
    /\ result' = [op |-> "get", parm |-> parm, ty |-> T, text |-> <<>>,
                  out |-> as_(mParms, parm, T)]
    /\ UNCHANGED <<cfg, overrides, phase, mParms, threadVars>>

\* The end of the call set(parm, newVal) whose val.set(newVal) gave r.
SetReturns(parm, newVal, r) ==
    /\ mParms' = [mParms EXCEPT ![parm] = r.cv]
    /\ result' = [op |-> "set", parm |-> parm, ty |-> "", text |-> newVal,
                  out |-> r.out]

\* ConfigTemplate::set(parm, newVal)
Set(parm, newVal) ==
    /\ phase = "ready"
    /\ SetReturns(parm, newVal, CV_set(mParms[parm], newVal))
    /\ UNCHANGED <<cfg, overrides, phase, threadVars>>

Next ==
    \/ Construct
    \/ \E parm \in Parms(cfg), T \in DestTypes : Get(parm, T)
    \/ \E parm \in Parms(cfg), newVal \in SetTexts : Set(parm, newVal)

Spec == Init /\ [][Next]_vars

(***************************************************************************)
(* Several callers: set and as_ calls on the updatable parameter of a      *)
(* constructed DatabaseConfig, each call a sequence of steps of its thread *)
(* around the one access it makes to the atomic mVal                       *)
(***************************************************************************)
ConcInit ==
    /\ cfg = "DatabaseConfig"
    /\ overrides \in ConcOverrides
    /\ phase = "ready"
    /\ mParms = ConfigTemplate_ctor(cfg, overrides).mParms
    /\ result = NoCall
    /\ pc = [t \in Threads |-> "idle"]
    /\ local = [t \in Threads |-> NoLocal]
    /\ last = mParms[UpdParm].mVal
    /\ written = {}

\* set(UpdParm, newVal) up to the store, r being what std::stoi(newVal)
\* gave: an exception leaves the call at once.
SetParsed(t, r) ==
    IF IsThrow(r)
    THEN UNCHANGED <<pc, local>>
    ELSE /\ pc' = [pc EXCEPT ![t] = "set_store"]
         /\ local' = [local EXCEPT ![t] = [NoLocal EXCEPT !.val = r.int]]

SetCall(t, newVal) ==
    /\ pc[t] = "idle"
    /\ SetParsed(t, stoi(newVal))
    /\ UNCHANGED <<cfg, overrides, phase, mParms, result, last, written>>

\* The atomic store of mVal = ...
SetStore(t) ==
    /\ pc[t] = "set_store"
    /\ mParms' = [mParms EXCEPT ![UpdParm].mVal = AtomicStore(@, local[t].val)]
    /\ last' = local[t].val
    /\ written' = written \cup {local[t].val}
    /\ pc' = [pc EXCEPT ![t] = "set_return"]
    /\ UNCHANGED <<cfg, overrides, phase, result, local>>

SetReturn(t) ==
    /\ pc[t] = "set_return"
    /\ pc' = [pc EXCEPT ![t] = "idle"]
    /\ local' = [local EXCEPT ![t] = NoLocal]
    /\ UNCHANGED <<cfg, overrides, phase, mParms, result, last, written>>

\* as_<T>(UpdParm) up to the load.
GetCall(t, T) ==
    /\ pc[t] = "idle"
    /\ pc' = [pc EXCEPT ![t] = "get_load"]
    /\ local' = [local EXCEPT ![t] = [NoLocal EXCEPT !.ty = T]]
    /\ UNCHANGED <<cfg, overrides, phase, mParms, result, last, written>>

\* mVal.load() in asStr, asInt or asBool; seen records the store that had
\* taken effect last at that moment.
GetLoad(t) ==
    /\ pc[t] = "get_load"
    /\ local' = [local EXCEPT ![t].val = mParms[UpdParm].mVal, ![t].seen = last]
    /\ pc' = [pc EXCEPT ![t] = "get_return"]
    /\ UNCHANGED <<cfg, overrides, phase, mParms, result, last, written>>

\* What the call of thread t returns: the conversion of the value loaded.
Returned(t) ==
    convertToType([mParms[UpdParm] EXCEPT !.mVal = local[t].val], local[t].ty)

GetReturn(t) ==
    /\ pc[t] = "get_return"
    /\ pc' = [pc EXCEPT ![t] = "idle"]
    /\ local' = [local EXCEPT ![t] = NoLocal]
    /\ UNCHANGED <<cfg, overrides, phase, mParms, result, last, written>>

ConcNext ==
    \/ \E t \in Threads, newVal \in ConcSetTexts : SetCall(t, newVal)
    \/ \E t \in Threads : SetStore(t)
    \/ \E t \in Threads : SetReturn(t)
    \/ \E t \in Threads, T \in ConcTypes : GetCall(t, T)
    \/ \E t \in Threads : GetLoad(t)
    \/ \E t \in Threads : GetReturn(t)

SpecConc == ConcInit /\ [][ConcNext]_vars

(***************************************************************************)
(* What the properties speak of                                            *)
(***************************************************************************)
\* A valid integer literal: an optional sign, then one or more decimal
\* digits, and nothing else.
IsIntLiteral(s) ==
    LET first == IF Len(s) >= 1 /\ s[1] \in {"+", "-"} THEN 2 ELSE 1
    IN  /\ first <= Len(s)
        /\ \A i \in first..Len(s) : isdigit(s[i])

\* s without its leading zeros, the last digit kept.
RECURSIVE StripZeros(_)
StripZeros(s) ==
    IF Len(s) > 1 /\ s[1] = "0" THEN StripZeros(Tail(s)) ELSE s

\* The decimal text of the integer a valid literal denotes, however large.
Denoted(s) ==
    LET neg == s[1] = "-"
        mag == StripZeros(IF s[1] \in {"+", "-"} THEN Tail(s) ELSE s)
    IN  IF neg /\ mag # <<"0">> THEN <<"-">> \o mag ELSE mag

\* Two characters equal up to the case of a letter.
SameLetter(c, d) ==
    c = d \/ \E i \in 1..26 : {c, d} = {Lower[i], Upper[i]}

\* Two texts equal when compared case-insensitively.
EqualNoCase(s, u) ==
    Len(s) = Len(u) /\ \A i \in 1..Len(s) : SameLetter(s[i], u[i])

\* The boolean text rule: false exactly for "0", "FALSE" and "OFF" in any
\* case.
BoolRule(s) ==
    ~ (\/ EqualNoCase(s, <<"0">>)
       \/ EqualNoCase(s, <<"F", "A", "L", "S", "E">>)
       \/ EqualNoCase(s, <<"O", "F", "F">>))

IsIntParm(p) == Decl(p).variant \in {"IntReadOnlyCV", "IntUpdatableCV"}

IsReadOnly(p) == Decl(p).variant # "IntUpdatableCV"

Overridden(p) == Decl(p).key \in DOMAIN overrides

OverrideText(p) == overrides[Decl(p).key]

\* The config value of p holding the hard-coded default.
DefaultCV(p) ==
    [variant |-> Decl(p).variant, width |-> Decl(p).width, key |-> Decl(p).key,
     mVal |-> Decl(p).defVal]

(***************************************************************************)
(* The properties                                                          *)
(***************************************************************************)
\* C1: for every declared parameter whose key is in the override map the
\* initial value is the value parsed from the override's text: for an
\* integer parameter the full 64-bit integer the text denotes, whatever the
\* declared width; for the boolean parameter the boolean text rule; for a
\* text parameter the text itself.  A map whose integer overrides are all
\* valid literals therefore gives a registry.
C1_OverrideIsFullInteger ==
    /\ phase = "failed" =>
         \E p \in Parms(cfg) :
            IsIntParm(p) /\ Overridden(p) /\ ~ IsIntLiteral(OverrideText(p))
    /\ result.op = "ctor" /\ phase = "ready" =>
         \A p \in Parms(cfg) :
            Overridden(p) =>
              CASE IsIntParm(p) ->
                     IsIntLiteral(OverrideText(p)) =>
                       as_(mParms, p, "string") = [str |-> Denoted(OverrideText(p))]
                [] Decl(p).variant = "BoolReadOnlyCV" ->
                     mParms[p].mVal = BoolRule(OverrideText(p))
                [] Decl(p).variant = "StrReadOnlyCV" ->
                     mParms[p].mVal = OverrideText(p)

\* C2: on the freshly constructed registry, as_<T> of every parameter whose
\* declared key is not a key of the override map (an exact match) gives the
\* hard-coded default converted to T; the same holds of a read-only
\* parameter at every later call.  An entry under another key changes no
\* parameter.
C2_DefaultWithoutOverride ==
    /\ result.op = "ctor" /\ phase = "ready" =>
         \A p \in Parms(cfg) :
            ~ Overridden(p) =>
              /\ mParms[p] = DefaultCV(p)
              /\ \A T \in DestTypes :
                    as_(mParms, p, T) = convertToType(DefaultCV(p), T)
    /\ result.op = "get" /\ ~ Overridden(result.parm) /\ IsReadOnly(result.parm) =>
         result.out = convertToType(DefaultCV(result.parm), result.ty)

\* C2's case: a registry made from a map whose only entry is under a
\* spelling that is no declared key, read after construction.
C2_Witness ==
    /\ phase = "ready"
    /\ DOMAIN overrides = {"STRIDESIZE"}
    /\ result.op = "get" /\ result.parm = "STRIDESIZE" /\ result.ty = "string"
    /\ result.out = [str |-> <<"5", "1", "2">>]

\* C3: set on a read-only parameter throws the read-only error naming the
\* parameter's key, whatever the text, and after any calls a read-only
\* parameter holds, and as_ gives, the value it had right after
\* construction.
C3_ReadOnlyNeverChanges ==
    /\ result.op = "set" /\ IsReadOnly(result.parm) =>
         result.out = [throw |-> "runtime_error", what |-> Decl(result.parm).key]
    /\ phase = "ready" =>
         \A p \in Parms(cfg) :
            IsReadOnly(p) => mParms[p] = Make_CV(overrides, Decl(p))
    /\ result.op = "get" /\ IsReadOnly(result.parm) =>
         result.out = convertToType(Make_CV(overrides, Decl(result.parm)), result.ty)

\* C3's case: a set on an overridden read-only parameter has been refused.
C3_Witness ==
    /\ result.op = "set" /\ result.parm = "INSERT_FLUSH"
    /\ result.text = <<"1", "3", "1", "0", "7", "2">>
    /\ IsThrow(result.out)
    /\ Overridden("INSERT_FLUSH") /\ mParms["INSERT_FLUSH"].mVal = FALSE

\* C4: set on the updatable integer parameter succeeds for every text that
\* is a valid integer literal, and the value then held is the integer the
\* text denotes.
C4_SetTakesEveryLiteral ==
    result.op = "set" /\ ~ IsReadOnly(result.parm) /\ IsIntLiteral(result.text) =>
      /\ result.out = [void |-> TRUE]
      /\ as_(mParms, result.parm, "string") = [str |-> Denoted(result.text)]

\* C6: as_<T> for an integer type T of w bits gives asInt() modulo 2^w read
\* in T's signedness: a value in T's range that differs from asInt() by a
\* multiple of 2^w.  The conversion checks no range and adds no error: the
\* call throws only what asInt() throws.
C6_NarrowingIsModular ==
    result.op = "get" /\ result.ty \in IntTypes =>
      LET r == asInt(mParms[result.parm])
          w == Width(result.ty)
          out == result.out
      IN  IF IsThrow(r) THEN out = r
          ELSE IF w < 32
          THEN /\ DOMAIN out = {"int"}
               /\ (out.int - r.int) % (2 ^ w) = 0
               /\ IF Signed(result.ty)
                  THEN -(2 ^ (w - 1)) <= out.int /\ out.int < 2 ^ (w - 1)
                  ELSE 0 <= out.int /\ out.int < 2 ^ w
               /\ r.int = 131072 => out.int = 0
               /\ r.int = 4096000 /\ result.ty = "uint8_t" => out.int = 0
          ELSE IF Signed(result.ty) \/ r.int >= 0
          THEN out = [int |-> r.int]
          ELSE out = [wrap |-> w, off |-> r.int]

\* C6's case: 131072 held by the updatable parameter and read as an 8-bit
\* unsigned integer.
C6_Witness ==
    /\ result.op = "get" /\ result.parm = "CACHE_MEM_SZ" /\ result.ty = "uint8_t"
    /\ mParms["CACHE_MEM_SZ"].mVal = 131072
    /\ result.out = [int |-> 0]

\* C7: strToBool gives false exactly for the texts that equal "0", "FALSE"
\* or "OFF" when compared case-insensitively, and true for every other
\* text, the empty one included; as_<bool> of a text parameter and the
\* initial value of the boolean parameter resolved from an override follow
\* that rule.
C7_BoolTextRule ==
    /\ \A k \in DOMAIN overrides : strToBool(overrides[k]) = BoolRule(overrides[k])
    /\ result.op = "set" => strToBool(result.text) = BoolRule(result.text)
    /\ phase = "ready" =>
         \A p \in Parms(cfg) :
            /\ Decl(p).variant = "StrReadOnlyCV" =>
                 as_(mParms, p, "bool") = [bool |-> BoolRule(mParms[p].mVal)]
            /\ Decl(p).variant = "BoolReadOnlyCV" /\ Overridden(p) =>
                 as_(mParms, p, "bool") = [bool |-> BoolRule(OverrideText(p))]
    /\ result.op = "get" /\ result.ty = "bool"
         /\ Decl(result.parm).variant = "StrReadOnlyCV" =>
         result.out = [bool |-> BoolRule(mParms[result.parm].mVal)]

\* C7's case: the boolean parameter, true by default, overridden with
\* "false" and read as a boolean.
C7_Witness ==
    /\ cfg = "ClusterConfig" /\ Overridden("INSERT_FLUSH")
    /\ OverrideText("INSERT_FLUSH") = <<"f", "a", "l", "s", "e">>
    /\ result.op = "get" /\ result.parm = "INSERT_FLUSH" /\ result.ty = "bool"
    /\ result.out = [bool |-> FALSE]

\* C8: a text that is not a valid integer literal, given as the override of
\* an integer parameter or to set on the updatable integer parameter, makes
\* the call throw: no registry holds an integer parameter made from such an
\* override, and such a set stores nothing.
C8_BadIntegerTextThrows ==
    /\ phase = "ready" =>
         \A p \in Parms(cfg) :
            IsIntParm(p) /\ Overridden(p) => IsIntLiteral(OverrideText(p))
    /\ phase = "failed" => IsThrow(result.out)
    /\ result.op = "set" /\ ~ IsReadOnly(result.parm)
         /\ ~ IsIntLiteral(result.text) => IsThrow(result.out)

\* C9: asInt() gives the stored integer for the integer classes, 1 or 0 for
\* the boolean class, and for the text class the integer the stored text
\* denotes when it is a valid integer literal and the parse error for every
\* other stored text.
C9_AsIntegerProjection ==
    result.op = "get" /\ result.ty = "int64_t" =>
      LET cv == mParms[result.parm]
          r == result.out
      IN  CASE IsIntParm(result.parm) -> r = [int |-> cv.mVal]
            [] cv.variant = "BoolReadOnlyCV" ->
                 r = [int |-> IF cv.mVal THEN 1 ELSE 0]
            [] cv.variant = "StrReadOnlyCV" ->
                 IF IsIntLiteral(cv.mVal)
                 THEN /\ DOMAIN r = {"int"}
                      /\ to_string(r.int) = Denoted(cv.mVal)
                 ELSE IsThrow(r)

\* C10: after construction the registry holds one value for each declared
\* parameter and no other; a step changes the value of a parameter only if
\* it is a set on that parameter, the parameter is updatable and the call
\* succeeded; as_ changes none.
C10_Frame ==
    [][phase = "ready" =>
         /\ DOMAIN mParms = Parms(cfg)
         /\ DOMAIN mParms' = Parms(cfg)
         /\ \A q \in Parms(cfg) :
               mParms'[q] # mParms[q] =>
                 /\ result'.op = "set" /\ result'.parm = q
                 /\ ~ IsReadOnly(q)
                 /\ result'.out = [void |-> TRUE]]_vars

\* C10's case: a set on the updatable parameter has succeeded and changed
\* its value, with an overridden read-only parameter beside it.
C10_Witness ==
    /\ result.op = "set" /\ result.parm = "CACHE_MEM_SZ"
    /\ result.out = [void |-> TRUE]
    /\ mParms["CACHE_MEM_SZ"].mVal = 4096000
    /\ Overridden("SHARED_FS_TYPE")

\* C5: with set and as_ calls of several threads interleaved on the
\* updatable parameter, every as_ returns the conversion of one whole
\* value, the one the registry was constructed with or one a set call
\* stored, and that value is the one of the store that had taken effect
\* last when the call loaded it, so that once the set calls have returned
\* every later as_ gives the value of the last of them; the cell always
\* holds the value stored last; and no call waits for another: a thread in
\* a call can always take its next step.
C5_AtomicWholeValues ==
    /\ mParms[UpdParm].mVal = last
    /\ \A t \in Threads :
          /\ pc[t] = "get_return" =>
               /\ local[t].val = local[t].seen
               /\ local[t].val \in
                    {ConfigTemplate_ctor(cfg, overrides).mParms[UpdParm].mVal}
                      \cup written
               /\ Returned(t) =
                    convertToType([mParms[UpdParm] EXCEPT !.mVal = local[t].seen],
                                  local[t].ty)
          /\ pc[t] = "set_store" => ENABLED SetStore(t)
          /\ pc[t] = "set_return" => ENABLED SetReturn(t)
          /\ pc[t] = "get_load" => ENABLED GetLoad(t)
          /\ pc[t] = "get_return" => ENABLED GetReturn(t)

\* C5's case: one thread is about to return the value a set stored while
\* another thread, having parsed a different value, is about to store it.
C5_Witness ==
    \E t, u \in Threads :
       /\ pc[t] = "get_return" /\ local[t].val = 4096000
       /\ local[t].ty = "string"
       /\ pc[u] = "set_store" /\ local[u].val = 131072
       /\ written = {131072, 4096000}

====
